---------------------------- MODULE Spec2Model ----------------------------
(***************************************************************************)
(* The Recovery Roadmap: the compounding loop of                           *)
(* RecoveryRoadmapCalculator (src/recovery_roadmap/core.py) and the        *)
(* POST /api/simulate handler that drives it (src/api.py).                 *)
(*                                                                         *)
(* Every balance, percentage and ratio of the program is a Python float,   *)
(* an IEEE 754 binary64 number, and every *, / and + of the loop rounds    *)
(* to nearest, ties to even.  The model keeps that arithmetic bit for bit: *)
(* a float is the record [m |-> M, e |-> E] standing for M * 2^E, where M  *)
(* is a natural number written as a little-endian sequence of base-2^15    *)
(* limbs (TLC's integers are 32 bits wide, a binary64 significand is 53).  *)
(* The representation is canonical: M is odd, or M is zero and E is 0, so  *)
(* two floats are equal exactly when their records are equal.  200.0 is    *)
(* [m |-> <<25>>, e |-> 3], 0.5 is [m |-> <<1>>, e |-> -1], and the limbs  *)
(* <<l1, l2, l3>> stand for l1 + l2 * 2^15 + l3 * 2^30.  The value         *)
(* 2^1024, which is no finite binary64 number, stands for +inf, and the    *)
(* record [m |-> <<>>, e |-> 1] for NaN.  The model covers the             *)
(* non-negative floats, +inf and NaN; the negative numbers are outside it. *)
(***************************************************************************)
EXTENDS Integers, Sequences, FiniteSets

\* ------------------------------------------------------------------------
\* Natural numbers of any size: little-endian limb sequences, <<>> is 0.
\* ------------------------------------------------------------------------

LimbBits == 15

Base == 2^LimbBits

RECURSIVE BNorm(_)
BNorm(a) ==
  IF a = <<>> THEN <<>>
  ELSE IF a[Len(a)] = 0 THEN BNorm(SubSeq(a, 1, Len(a) - 1))
  ELSE a

RECURSIVE Zeros(_)
Zeros(n) == IF n <= 0 THEN <<>> ELSE <<0>> \o Zeros(n - 1)

\* n as a limb sequence, for 0 <= n < 2^31
RECURSIVE BFromInt(_)
BFromInt(n) == IF n = 0 THEN <<>> ELSE <<n % Base>> \o BFromInt(n \div Base)

RECURSIVE BAddC(_, _, _)
BAddC(a, b, c) ==
  IF a = <<>> /\ b = <<>> THEN (IF c = 0 THEN <<>> ELSE <<c>>)
  ELSE LET x == IF a = <<>> THEN 0 ELSE Head(a)
           y == IF b = <<>> THEN 0 ELSE Head(b)
           s == x + y + c
       IN  <<s % Base>> \o BAddC(IF a = <<>> THEN <<>> ELSE Tail(a),
                                 IF b = <<>> THEN <<>> ELSE Tail(b),
                                 s \div Base)

BAdd(a, b) == BAddC(a, b, 0)

\* a * k + c for 0 <= k, c < Base
RECURSIVE BMulSmall(_, _, _)
BMulSmall(a, k, c) ==
  IF a = <<>> THEN (IF c = 0 THEN <<>> ELSE <<c>>)
  ELSE LET p == Head(a) * k + c
       IN  <<p % Base>> \o BMulSmall(Tail(a), k, p \div Base)

RECURSIVE BMulRaw(_, _)
BMulRaw(a, b) ==
  IF a = <<>> \/ b = <<>> THEN <<>>
  ELSE LET rest == BMulRaw(a, Tail(b))
       IN  BAdd(BMulSmall(a, Head(b), 0),
                IF rest = <<>> THEN <<>> ELSE <<0>> \o rest)

BMul(a, b) == BNorm(BMulRaw(a, b))

\* [q |-> a \div d, r |-> a % d] for 0 < d < Base; q may carry high zero limbs
RECURSIVE BDivRem(_, _)
BDivRem(a, d) ==
  IF a = <<>> THEN [q |-> <<>>, r |-> 0]
  ELSE LET hi  == BDivRem(Tail(a), d)
           cur == hi.r * Base + Head(a)
       IN  [q |-> <<cur \div d>> \o hi.q, r |-> cur % d]

RECURSIVE BitLenSmall(_)
BitLenSmall(n) == IF n = 0 THEN 0 ELSE 1 + BitLenSmall(n \div 2)

BBitLen(a) ==
  IF a = <<>> THEN 0 ELSE LimbBits * (Len(a) - 1) + BitLenSmall(a[Len(a)])

BOdd(a) == a # <<>> /\ Head(a) % 2 = 1

\* a * 2^k
BShl(a, k) ==
  IF a = <<>> THEN <<>>
  ELSE Zeros(k \div LimbBits) \o BMulSmall(a, 2^(k % LimbBits), 0)

\* a \div 2^k
BShr(a, k) ==
  LET d == k \div LimbBits
  IN  IF d >= Len(a) THEN <<>>
      ELSE BNorm(BDivRem(SubSeq(a, d + 1, Len(a)), 2^(k % LimbBits)).q)

\* -1, 0, 1 as a < b, a = b, a > b (a and b without high zero limbs)
RECURSIVE BCmpAt(_, _, _)
BCmpAt(a, b, i) ==
  IF i = 0 THEN 0
  ELSE IF a[i] < b[i] THEN -1
  ELSE IF a[i] > b[i] THEN 1
  ELSE BCmpAt(a, b, i - 1)

BCmp(a, b) ==
  IF Len(a) < Len(b) THEN -1
  ELSE IF Len(a) > Len(b) THEN 1
  ELSE BCmpAt(a, b, Len(a))

\* ------------------------------------------------------------------------
\* binary64: 53 significant bits, least exponent -1074, overflow at 2^1024.
\* ------------------------------------------------------------------------

Precision == 53

EMin == -1074

EOverflow == 1024

Zero == [m |-> <<>>, e |-> 0]

Inf == [m |-> <<1>>, e |-> EOverflow]

IsInf(x) == x = Inf

\* nan: what inf * 0.0 gives; every comparison with it is false
NaN == [m |-> <<>>, e |-> 1]

IsNaN(x) == x = NaN

\* math.isfinite(x)
IsFinite(x) == ~IsInf(x) /\ ~IsNaN(x)

\* the canonical record of n * 2^e: n made odd; +inf from 2^1024 on
RECURSIVE Canon(_, _)
Canon(n, e) ==
  IF n = <<>> THEN Zero
  ELSE IF Head(n) = 0 THEN Canon(Tail(n), e + LimbBits)
  ELSE IF Head(n) % 2 = 0 THEN Canon(BShr(n, 1), e + 1)
  ELSE IF BBitLen(n) + e > EOverflow THEN Inf
  ELSE [m |-> n, e |-> e]

\* n * 2^e rounded to the nearest binary64, ties to even
FRound(n, e) ==
  IF n = <<>> THEN Zero
  ELSE LET l == BBitLen(n)
           q == IF e + l - Precision > EMin THEN e + l - Precision ELSE EMin
       IN  IF q <= e THEN Canon(n, e)
           ELSE LET sh     == q - e
                    q2     == BShr(n, sh - 1)
                    guard  == BOdd(q2)
                    sticky == BShl(q2, sh - 1) # n
                    t      == BShr(q2, 1)
                    up     == guard /\ (sticky \/ BOdd(t))
                IN  Canon(IF up THEN BAdd(t, <<1>>) ELSE t, q)

\* the int n (0 <= n < 2^31) as a float: Python's float(n)
F(n) == FRound(BFromInt(n), 0)

\* x * 2^k, for an x and a k that keep the result a finite normal number
Scaled(x, k) == IF x = Zero THEN Zero ELSE Canon(x.m, x.e + k)

\* the place of x's leading bit (x > 0)
Top(x) == BBitLen(x.m) + x.e

\* Python's x < y
Less(x, y) ==
  IF IsNaN(x) \/ IsNaN(y) THEN FALSE
  ELSE IF y = Zero THEN FALSE
  ELSE IF x = Zero THEN TRUE
  ELSE IF Top(x) # Top(y) THEN Top(x) < Top(y)
  ELSE LET e == IF x.e < y.e THEN x.e ELSE y.e
       IN  BCmp(BShl(x.m, x.e - e), BShl(y.m, y.e - e)) = -1

\* Python's x <= y
LessEq(x, y) == ~IsNaN(x) /\ ~IsNaN(y) /\ ~Less(y, x)

\* Python's x + y.  An operand whose leading bit lies more than 64 places
\* under the other's is less than half a unit in the last place of the sum,
\* so the sum rounds to the other operand; otherwise the exact sum is rounded
FAdd(x, y) ==
  IF IsNaN(x) \/ IsNaN(y) THEN NaN
  ELSE IF IsInf(x) \/ IsInf(y) THEN Inf
  ELSE IF x = Zero THEN y
  ELSE IF y = Zero THEN x
  ELSE IF Top(x) - Top(y) > 64 THEN x
  ELSE IF Top(y) - Top(x) > 64 THEN y
  ELSE LET e == IF x.e < y.e THEN x.e ELSE y.e
       IN  FRound(BAdd(BShl(x.m, x.e - e), BShl(y.m, y.e - e)), e)

\* Python's x * y; inf * 0.0 is nan
FMul(x, y) ==
  IF IsNaN(x) \/ IsNaN(y) THEN NaN
  ELSE IF (IsInf(x) /\ y = Zero) \/ (x = Zero /\ IsInf(y)) THEN NaN
  ELSE IF x = Zero \/ y = Zero THEN Zero
  ELSE IF IsInf(x) \/ IsInf(y) THEN Inf
  ELSE FRound(BMul(x.m, y.m), x.e + y.e)

\* Python's x / d for the int d, 0 < d < 2^15: the quotient of x.m * 2^75 by
\* d, with one more bit that records a remainder, then rounded once
FDivInt(x, d) ==
  IF IsNaN(x) THEN NaN
  ELSE IF x = Zero THEN Zero
  ELSE IF IsInf(x) THEN Inf
  ELSE LET qr == BDivRem(Zeros(5) \o x.m, d)
       IN  FRound(BMulSmall(BNorm(qr.q), 2, IF qr.r # 0 THEN 1 ELSE 0),
                  x.e - 5 * LimbBits - 1)

\* ------------------------------------------------------------------------
\* core.py: SimulationConfig, TradeResult, RecoveryRoadmapCalculator
\* ------------------------------------------------------------------------

SimulationConfig(cb, tb, pct, rr) ==
  [current_balance |-> cb, target_balance |-> tb,
   risk_per_trade_percent |-> pct, risk_reward_ratio |-> rr]

TradeResult(n, balance, risk, profit) ==
  [trade_number |-> n, account_balance |-> balance,
   risk_amount |-> risk, profit_amount |-> profit]

\* the config of a calculator that has not been constructed yet
NoConfig == SimulationConfig(Zero, Zero, Zero, Zero)

\* a changed loop test: <= for <
loop_condition_le(cfg, balance) == LessEq(balance, cfg.target_balance)

\* while current_balance < self.config.target_balance
loop_condition(cfg, balance) == Less(balance, cfg.target_balance)

\* a changed risk: the percentage taken as a fraction, not divided by 100
risk_amount_undivided(cfg, balance) ==
  FMul(balance, cfg.risk_per_trade_percent)

\* risk_amount = current_balance * (self.config.risk_per_trade_percent / 100)
risk_amount(cfg, balance) ==
  FMul(balance, FDivInt(cfg.risk_per_trade_percent, 100))

\* profit_amount = risk_amount * self.config.risk_reward_ratio
profit_amount(cfg, balance) ==
  FMul(risk_amount(cfg, balance), cfg.risk_reward_ratio)

\* new_balance = current_balance + profit_amount
new_balance(cfg, balance) == FAdd(balance, profit_amount(cfg, balance))

\* a changed record: the balance after the trade stored as account_balance
next_trade_after(cfg, balance, n) ==
  TradeResult(n, FAdd(balance, FMul(FMul(balance, FDivInt(cfg.risk_per_trade_percent, 100)),
                                    cfg.risk_reward_ratio)),
              FMul(balance, FDivInt(cfg.risk_per_trade_percent, 100)),
              FMul(FMul(balance, FDivInt(cfg.risk_per_trade_percent, 100)),
                   cfg.risk_reward_ratio))

\* the trade the loop body appends
next_trade(cfg, balance, n) ==
  TradeResult(n, balance, risk_amount(cfg, balance), profit_amount(cfg, balance))

\* a changed counter: trade_number never incremented
next_trade_number_stuck(n) == n

\* trade_number += 1
next_trade_number(n) == n + 1

\* the list calculate returns for cfg, followed for at most bound passes of
\* the loop
RECURSIVE calculate_from(_, _, _, _, _)
calculate_from(cfg, balance, n, acc, bound) ==
  IF ~loop_condition(cfg, balance) \/ Len(acc) >= bound THEN acc
  ELSE calculate_from(cfg, new_balance(cfg, balance), next_trade_number(n),
                      Append(acc, next_trade(cfg, balance, n)), bound)

calculate(cfg, bound) == calculate_from(cfg, cfg.current_balance, 1, <<>>, bound)

\* a changed maximum: the first trade's risk
max_risk_first(tr) == tr[1].risk_amount

\* one step of max: the item replaces the greatest so far only when greater
max_step(best, item) == IF Less(best, item) THEN item ELSE best

\* max's loop over tr[lo..hi] in order, entered with the greatest so far; the
\* range is walked as its first half and then its second half, and a nan that
\* has become the greatest so far stays (nan < item is False for every item)
RECURSIVE max_risk_over(_, _, _, _)
max_risk_over(tr, best, lo, hi) ==
  IF lo > hi THEN best
  ELSE IF lo = hi THEN max_step(best, tr[lo].risk_amount)
  ELSE LET mid == (lo + hi) \div 2
           half == max_risk_over(tr, best, lo, mid)
       IN  IF IsNaN(half) THEN half
           ELSE max_risk_over(tr, half, mid + 1, hi)

\* max(trade.risk_amount for trade in self.trades): the first greatest one
max_risk(tr) == max_risk_over(tr, tr[1].risk_amount, 2, Len(tr))

\* self.trades[-1].account_balance + self.trades[-1].profit_amount
final_balance(tr) == FAdd(tr[Len(tr)].account_balance, tr[Len(tr)].profit_amount)

\* a changed empty case: the target reported as reached when no trade is stored
summary_of_target_reached(cfg, tr) ==
  IF tr = <<>>
  THEN [total_trades |-> 0, max_risk_taken |-> Zero,
        final_balance |-> cfg.target_balance]
  ELSE [total_trades |-> Len(tr), max_risk_taken |-> max_risk(tr),
        final_balance |-> final_balance(tr),
        starting_balance |-> cfg.current_balance,
        target_balance |-> cfg.target_balance]

\* the dict get_summary returns for a calculator with this config and trades
summary_of(cfg, tr) ==
  IF tr = <<>>
  THEN [total_trades |-> 0, max_risk_taken |-> Zero,
        final_balance |-> cfg.current_balance]
  ELSE [total_trades |-> Len(tr), max_risk_taken |-> max_risk(tr),
        final_balance |-> final_balance(tr),
        starting_balance |-> cfg.current_balance,
        target_balance |-> cfg.target_balance]

\* ------------------------------------------------------------------------
\* api.py: the field constraints of SimulationRequest and the handler's check
\* ------------------------------------------------------------------------

\* Field(gt=0), Field(gt=0), Field(gt=0, le=100), Field(gt=0)
fields_valid(req) ==
  /\ Less(Zero, req.current_balance)
  /\ Less(Zero, req.target_balance)
  /\ Less(Zero, req.risk_per_trade_percent)
  /\ LessEq(req.risk_per_trade_percent, F(100))
  /\ Less(Zero, req.risk_reward_ratio)

\* if request.target_balance <= request.current_balance: raise ValueError
target_not_above(req) == LessEq(req.target_balance, req.current_balance)

\* the fields of a request that fail their constraint
failed_fields(req) ==
  { f \in {"current_balance", "target_balance", "risk_reward_ratio"} :
      ~Less(Zero, req[f]) }
  \cup (IF /\ Less(Zero, req.risk_per_trade_percent)
            /\ LessEq(req.risk_per_trade_percent, F(100))
         THEN {} ELSE {"risk_per_trade_percent"})

\* FastAPI answers a request whose body fails the model's constraints with
\* 422 and the list of failed fields, each with the value that was sent
ValidationError == [status |-> 422, kind |-> "validation_error"]

\* an exception the handler raises and nothing catches is answered with 500;
\* so is a response body that holds inf or nan where JSON wants a number
\* ("Out of range float values are not JSON compliant")
InternalError == [status |-> 500, kind |-> "internal_server_error"]

\* the 422 body repeats the value of each failed field: it can be written
\* only when those values are finite
validation_body_writable(req) ==
  \A f \in failed_fields(req) : IsFinite(req[f])

\* JSON's null
Null == [null |-> TRUE]

\* the trades of a response are TradeResponse models, whose float fields are
\* written as they are: the body can be written only when all are finite
trades_writable(tr) ==
  \A i \in 1..Len(tr) :
    /\ IsFinite(tr[i].account_balance)
    /\ IsFinite(tr[i].risk_amount)
    /\ IsFinite(tr[i].profit_amount)

\* summary: dict is written value by value, inf and nan as null
summary_as_json(sm) ==
  [k \in DOMAIN sm |->
     IF k = "total_trades" THEN sm[k]
     ELSE IF IsFinite(sm[k]) THEN sm[k] ELSE Null]

OkResponse(tr, sm) ==
  [status |-> 200, kind |-> "ok", trades |-> tr, summary |-> summary_as_json(sm)]

\* ------------------------------------------------------------------------
\* Bounds and inputs
\* ------------------------------------------------------------------------

\* the loop is followed for at most this many trades
MaxTrades == 41

\* a caller of the library calls calculate at most this many times
MaxCalls == 2

BalanceValues == {Zero, F(1), F(3)}

TargetValues == {Zero, F(1), F(3), F(4)}

PercentValues == {Zero, Scaled(F(1), -60), F(7), F(50), F(100), F(150)}

RatioValues == {Zero, F(1), F(3)}

\* the spec's example; the least positive float as a balance; a balance
\* whose first sum overflows; the same with a profit that overflows; a
\* percentage sent as 1e999, which the JSON parser reads as inf
ExtraInputs ==
  { SimulationConfig(F(200), F(2000), F(2), F(3)),
    SimulationConfig(Scaled(F(1), EMin), F(1), F(50), F(1)),
    SimulationConfig(Scaled(F(1), 1023), Scaled(F(3), 1022), F(100), F(1)),
    SimulationConfig(Scaled(F(1), 1023), Scaled(F(3), 1022), F(100), F(3)),
    SimulationConfig(F(1), F(3), Inf, F(1)) }

Inputs ==
  { SimulationConfig(cb, tb, pct, rr) :
      cb \in BalanceValues, tb \in TargetValues,
      pct \in PercentValues, rr \in RatioValues } \cup ExtraInputs

\* ------------------------------------------------------------------------
\* State
\* ------------------------------------------------------------------------

VARIABLES
  mode,             \* "api": a POST /api/simulate request; "lib": a caller of the library
  input,            \* the four numbers the caller supplies
  response,         \* <<>>, or <<the response of the API>>
  config,           \* self.config
  trades,           \* self.trades
  pc,               \* where the caller, the handler or calculate stands
  current_balance,  \* calculate's local current_balance
  trade_number,     \* calculate's local trade_number
  returned,         \* <<>>, or <<the list the latest finished calculate returned>>
  first_returned,   \* <<>>, or <<the list the first finished calculate returned>>
  summary,          \* <<>>, or <<the dict the latest get_summary returned>>
  calls             \* the number of calculate calls begun

vars == <<mode, input, response, config, trades, pc, current_balance,
          trade_number, returned, first_returned, summary, calls>>

Init ==
  /\ mode \in {"api", "lib"}
  /\ input \in Inputs
  /\ response = <<>>
  /\ config = NoConfig
  /\ trades = <<>>
  /\ pc = "start"
  /\ current_balance = Zero
  /\ trade_number = 0
  /\ returned = <<>>
  /\ first_returned = <<>>
  /\ summary = <<>>
  /\ calls = 0

\* RecoveryRoadmapCalculator(config) by a caller of the library: no validation
construct ==
  /\ mode = "lib" /\ pc = "start"
  /\ config' = input
  /\ trades' = <<>>
  /\ pc' = "idle"
  /\ UNCHANGED <<mode, input, response, current_balance, trade_number,
                 returned, first_returned, summary, calls>>

\* the request body against SimulationRequest, before the handler runs
simulate_validate ==
  /\ mode = "api" /\ pc = "start"
  /\ IF fields_valid(input)
     THEN pc' = "handler" /\ response' = response
     ELSE /\ pc' = "done"
          /\ response' = IF validation_body_writable(input)
                         THEN <<ValidationError>> ELSE <<InternalError>>
  /\ UNCHANGED <<mode, input, config, trades, current_balance, trade_number,
                 returned, first_returned, summary, calls>>

\* simulate, to the construction of the calculator
simulate_enter ==
  /\ mode = "api" /\ pc = "handler"
  /\ IF target_not_above(input)
     THEN /\ pc' = "done"
          /\ response' = <<InternalError>>
          /\ UNCHANGED <<config, trades>>
     ELSE /\ pc' = "idle"
          /\ config' = input
          /\ trades' = <<>>
          /\ response' = response
  /\ UNCHANGED <<mode, input, current_balance, trade_number,
                 returned, first_returned, summary, calls>>

\* a changed calculate: self.trades is not emptied, so a second call appends
calculate_begin_keeps_trades ==
  /\ pc = "idle"
  /\ calls < (IF mode = "api" THEN 1 ELSE MaxCalls)
  /\ trades' = trades
  /\ current_balance' = config.current_balance
  /\ trade_number' = 1
  /\ calls' = calls + 1
  /\ pc' = "loop"
  /\ UNCHANGED <<mode, input, response, config, returned, first_returned, summary>>

\* calculate, to the loop's first test
calculate_begin ==
  /\ pc = "idle"
  /\ calls < (IF mode = "api" THEN 1 ELSE MaxCalls)
  /\ trades' = <<>>
  /\ current_balance' = config.current_balance
  /\ trade_number' = 1
  /\ calls' = calls + 1
  /\ pc' = "loop"
  /\ UNCHANGED <<mode, input, response, config, returned, first_returned, summary>>

\* one pass of the loop body
calculate_loop ==
  /\ pc = "loop"
  /\ loop_condition(config, current_balance)
  /\ Len(trades) < MaxTrades
  /\ trades' = Append(trades, next_trade(config, current_balance, trade_number))
  /\ current_balance' = new_balance(config, current_balance)
  /\ trade_number' = next_trade_number(trade_number)
  /\ UNCHANGED <<mode, input, response, config, pc, returned, first_returned,
                 summary, calls>>

\* the loop's test fails: return self.trades
calculate_return ==
  /\ pc = "loop"
  /\ ~loop_condition(config, current_balance)
  /\ returned' = <<trades>>
  /\ first_returned' = IF first_returned = <<>> THEN <<trades>> ELSE first_returned
  /\ pc' = "idle"
  /\ UNCHANGED <<mode, input, response, config, trades, current_balance,
                 trade_number, summary, calls>>

\* get_summary; the handler calls it once, after calculate
get_summary ==
  /\ pc = "idle"
  /\ mode = "api" => calls = 1 /\ summary = <<>>
  /\ summary' = <<summary_of(config, trades)>>
  /\ UNCHANGED <<mode, input, response, config, trades, pc, current_balance,
                 trade_number, returned, first_returned, calls>>

\* simulate, from the conversion of the trades to the response
simulate_respond ==
  /\ mode = "api" /\ pc = "idle"
  /\ returned # <<>> /\ summary # <<>>
  /\ response' = IF trades_writable(returned[1])
                 THEN <<OkResponse(returned[1], summary[1])>>
                 ELSE <<InternalError>>
  /\ pc' = "done"
  /\ UNCHANGED <<mode, input, config, trades, current_balance, trade_number,
                 returned, first_returned, summary, calls>>

Next ==
  \/ construct
  \/ simulate_validate
  \/ simulate_enter
  \/ calculate_begin
  \/ calculate_loop
  \/ calculate_return
  \/ get_summary
  \/ simulate_respond

Spec == Init /\ [][Next]_vars

\* ------------------------------------------------------------------------
\* Properties
\* ------------------------------------------------------------------------

\* the precondition of the termination guarantee: positive risk, positive
\* ratio, target_balance > current_balance > 0
growth_precondition(cfg) ==
  /\ Less(Zero, cfg.risk_per_trade_percent)
  /\ Less(Zero, cfg.risk_reward_ratio)
  /\ Less(Zero, cfg.current_balance)
  /\ Less(cfg.current_balance, cfg.target_balance)

\* a pass of the loop that leaves current_balance where it was; the loop is
\* deterministic, so the same pass then repeats for ever
stalled(cfg, balance) ==
  loop_condition(cfg, balance) /\ new_balance(cfg, balance) = balance

\* The bound on the trades cuts no loop that would end: a loop that stands at
\* MaxTrades trades and would go on is a stalled one.
BoundCutsOnlyStalledLoops ==
  (pc = "loop" /\ Len(trades) = MaxTrades /\ loop_condition(config, current_balance))
    => stalled(config, current_balance)

\* C1: for every config with risk_per_trade_percent > 0, risk_reward_ratio > 0
\* and target_balance > current_balance > 0, calculate terminates: the loop
\* always eventually reaches balance >= target_balance.  The loop is
\* deterministic and the floats under the target are finitely many, so it
\* ends exactly when no pass leaves the running balance where it was.
C1_CalculateTerminates ==
  (pc = "loop" /\ growth_precondition(config)) => ~stalled(config, current_balance)

\* C2: calculate stops exactly when the running balance first reaches the
\* target: every trade of the returned list has account_balance <
\* target_balance, the balance after the last trade (get_summary's
\* final_balance) is >= target_balance, the list is empty exactly when
\* target_balance <= current_balance, and total_trades is the list's length.
C2_StopsAtTarget ==
  returned # <<>> =>
    LET tr == returned[1]
        sm == summary_of(config, tr)
    IN  /\ \A i \in 1..Len(tr) : Less(tr[i].account_balance, config.target_balance)
        /\ LessEq(config.target_balance, sm.final_balance)
        /\ (tr = <<>>) <=> LessEq(config.target_balance, config.current_balance)
        /\ sm.total_trades = Len(tr)
        /\ (response # <<>> /\ response[1].status = 200) =>
             /\ response[1].trades = tr
             /\ response[1].summary.final_balance # Null =>
                  LessEq(config.target_balance, response[1].summary.final_balance)
             /\ response[1].summary.total_trades = Len(tr)

C2_Witness ==
  /\ returned # <<>> /\ Len(returned[1]) >= 2
  /\ summary # <<>> /\ summary[1].total_trades = Len(returned[1])
  /\ Less(config.target_balance, summary[1].final_balance)

\* C3: in the returned list trade 1's account_balance is
\* config.current_balance, and each later trade's account_balance is the
\* trade before's account_balance + profit_amount.
C3_BalancesChain ==
  returned # <<>> =>
    LET tr == returned[1]
    IN  /\ tr # <<>> => tr[1].account_balance = config.current_balance
        /\ \A i \in 2..Len(tr) :
             tr[i].account_balance =
               FAdd(tr[i-1].account_balance, tr[i-1].profit_amount)

C3_Witness ==
  /\ returned # <<>> /\ Len(returned[1]) >= 3
  /\ returned[1][3].account_balance # returned[1][2].account_balance

\* C4, as claimed: every trade has risk_amount == account_balance *
\* risk_per_trade_percent / 100, the product taken first and then divided,
\* and profit_amount == risk_amount * risk_reward_ratio.
C4_RiskProductThenDivided ==
  returned # <<>> =>
    \A i \in 1..Len(returned[1]) :
      LET t == returned[1][i]
      IN  /\ t.risk_amount =
               FDivInt(FMul(t.account_balance, config.risk_per_trade_percent), 100)
          /\ t.profit_amount = FMul(t.risk_amount, config.risk_reward_ratio)

\* C4, amended: every trade has risk_amount == account_balance *
\* (risk_per_trade_percent / 100), the quotient rounded first and then
\* multiplied, and profit_amount == risk_amount * risk_reward_ratio.
C4_RiskAndProfit ==
  returned # <<>> =>
    \A i \in 1..Len(returned[1]) :
      LET t == returned[1][i]
      IN  /\ t.risk_amount =
               FMul(t.account_balance, FDivInt(config.risk_per_trade_percent, 100))
          /\ t.profit_amount = FMul(t.risk_amount, config.risk_reward_ratio)

\* a returned trade on which the two groupings round differently
C4_Witness ==
  /\ returned # <<>>
  /\ \E i \in 1..Len(returned[1]) :
       LET t == returned[1][i]
       IN  /\ t.risk_amount =
                FMul(t.account_balance, FDivInt(config.risk_per_trade_percent, 100))
           /\ t.risk_amount #
                FDivInt(FMul(t.account_balance, config.risk_per_trade_percent), 100)

\* C5: the trade_numbers of the list are exactly 1..N: the k-th record has
\* trade_number k, in the list being built and in the list returned.
C5_TradeNumbers ==
  /\ \A i \in 1..Len(trades) : trades[i].trade_number = i
  /\ returned # <<>> =>
       \A i \in 1..Len(returned[1]) : returned[1][i].trade_number = i

C5_Witness ==
  /\ returned # <<>> /\ Len(returned[1]) >= 3
  /\ returned[1][3].trade_number = 3

\* the greatest risk_amount of a non-empty list
reference_max_risk(tr) ==
  LET risks == { tr[i].risk_amount : i \in 1..Len(tr) }
  IN  CHOOSE x \in risks : \A y \in risks : LessEq(y, x)

\* C6: get_summary matches the reference definition of summarize: on an empty
\* list total_trades = 0, max_risk_taken = 0.0 and final_balance =
\* config.current_balance; otherwise total_trades = the length, max_risk_taken
\* = the greatest risk_amount, final_balance = the last trade's
\* account_balance + profit_amount.
C6_SummaryMatchesReference ==
  [][ get_summary =>
        LET sm == summary'[1]
        IN  IF trades = <<>>
            THEN /\ sm.total_trades = 0
                 /\ sm.max_risk_taken = Zero
                 /\ sm.final_balance = config.current_balance
            ELSE /\ sm.total_trades = Len(trades)
                 /\ sm.max_risk_taken = reference_max_risk(trades)
                 /\ sm.final_balance =
                      FAdd(trades[Len(trades)].account_balance,
                           trades[Len(trades)].profit_amount) ]_vars

C6_Witness ==
  /\ summary # <<>> /\ summary[1].total_trades >= 2
  /\ pc = "idle" /\ trades # <<>>
  /\ summary[1].max_risk_taken = trades[Len(trades)].risk_amount
  /\ summary[1].max_risk_taken # trades[1].risk_amount

\* C7: every dict get_summary returns, for an empty list or not, carries
\* starting_balance (= config.current_balance) and target_balance
\* (= config.target_balance) beside total_trades, max_risk_taken and
\* final_balance.
C7_SummaryCarriesBalances ==
  summary # <<>> =>
    /\ DOMAIN summary[1] = {"total_trades", "max_risk_taken", "final_balance",
                            "starting_balance", "target_balance"}
    /\ summary[1].starting_balance = config.current_balance
    /\ summary[1].target_balance = config.target_balance

\* what the API is to reject: target_balance <= current_balance,
\* risk_per_trade_percent outside (0,100], risk_reward_ratio <= 0,
\* current_balance <= 0 or target_balance <= 0
to_be_rejected(req) ==
  \/ LessEq(req.target_balance, req.current_balance)
  \/ LessEq(req.risk_per_trade_percent, Zero)
  \/ Less(F(100), req.risk_per_trade_percent)
  \/ LessEq(req.risk_reward_ratio, Zero)
  \/ LessEq(req.current_balance, Zero)
  \/ LessEq(req.target_balance, Zero)

\* C8: POST /api/simulate rejects every such request before the engine is
\* invoked, and answers each with a structured validation error, not with an
\* unhandled, internal failure; calculate is never called with a rejected
\* config.
C8_RejectedWithValidationError ==
  (mode = "api" /\ to_be_rejected(input)) =>
    /\ calls = 0
    /\ pc # "idle"
    /\ response # <<>> => response[1] = ValidationError

\* C9: calling calculate again on the same calculator yields the same list:
\* every call returns what the first call returned, the stored list after a
\* call is that list (nothing is accumulated), and the config is unchanged.
C9_CalculateIdempotent ==
  /\ returned # <<>> =>
       /\ returned = first_returned
       /\ pc = "idle" => trades = first_returned[1]
       /\ returned[1] = calculate(input, MaxTrades)
  /\ calls > 0 => config = input

C9_Witness ==
  /\ calls = 2 /\ pc = "idle"
  /\ returned # <<>> /\ Len(returned[1]) >= 2
  /\ trades = returned[1]

\* C10: get_summary on a calculator whose calculate has not been called
\* reports total_trades = 0, max_risk_taken = 0.0 and final_balance =
\* config.current_balance, even when target_balance > current_balance; after
\* calculate has run it describes the list calculate returned.
C10_SummaryNeedsCalculate ==
  [][ get_summary =>
        IF calls = 0
        THEN summary'[1] = [total_trades |-> 0, max_risk_taken |-> Zero,
                            final_balance |-> config.current_balance]
        ELSE /\ summary'[1].total_trades = Len(returned[1])
             /\ returned[1] # <<>> =>
                  summary'[1].final_balance =
                    FAdd(returned[1][Len(returned[1])].account_balance,
                         returned[1][Len(returned[1])].profit_amount) ]_vars

C10_Witness ==
  /\ calls = 0 /\ summary # <<>>
  /\ Less(config.current_balance, config.target_balance)
  /\ summary[1].total_trades = 0
  /\ summary[1].final_balance = config.current_balance

=============================================================================
